---- MODULE Spec2Model ----
(***************************************************************************)
(* Water POS (src/app.py): the customer registry, the ledger, the billing  *)
(* reconciliation of create_bill and the admin wipe, as a state machine    *)
(* over the SQLite tables.  Every connection commit is one atomic step;    *)
(* the steps of one create_bill call are the commits it makes, in order.   *)
(*                                                                         *)
(* Units.  Money is held in cents (0.01).  Quantities are held in tenths   *)
(* of a unit (0.1), so a product quantity * price is in mills (0.001) and  *)
(* round(x, 2) is a real rounding from mills to cents.  Payments are given *)
(* at cent precision.                                                      *)
(***************************************************************************)
EXTENDS Integers, Sequences, FiniteSets, TLC

VARIABLES
    users,           \* table users: the emails signed up (hash and salt left out)
    customers,       \* table customers: id -> name
    ledger,          \* table ledger: customer_id -> [advance, remaining]
    bills,           \* table bills: id -> row
    bill_items,      \* table bill_items: set of rows
    nextCustomerId,  \* AUTOINCREMENT counter of customers.id
    nextBillId,      \* AUTOINCREMENT counter of bills.id
    nextItemId,      \* AUTOINCREMENT counter of bill_items.id
    pc,              \* per session: position inside create_bill
    locals,          \* per session: the local variables of create_bill
    wipes,           \* how often the admin wipe has run (bounds the model)
    serials          \* history: every cur.lastrowid a bills INSERT has returned

vars == <<users, customers, ledger, bills, bill_items, nextCustomerId, nextBillId,
          nextItemId, pc, locals, wipes, serials>>

db == <<customers, ledger, bills, bill_items, nextCustomerId, nextBillId, nextItemId>>

(* Bounds of the model *)

MaxBills == 2

MaxWipes == 1

(* The sessions (browser sessions of the Streamlit server) *)
Procs == {"s1", "s2"}

(* Emails as typed into the sign-up form *)
Emails == { <<"A", "@", "x", " ">>, <<"a", "@", "x">> }

(* Customer names as typed: sequences of characters *)
Names == { <<"A", "l", "i", " ">>, <<"a", "l", "i">>, <<" ">> }

(* Item lists as passed to create_bill: qty in tenths of a unit, price in
   cents.  0.3 * 50.01 = 15.003 rounds to 15.00.  No product of the lists
   below is an exact half cent, where the binary value of the float decides
   the direction of round() *)
ItemLists ==
    { << [name |-> "500ML PACK", qty |-> 0, price |-> 1500],
         [name |-> "1.5LTR PACK", qty |-> 10, price |-> -500],
         [name |-> "6LTR BOTTLE", qty |-> 3, price |-> 5001] >> }

(* Payments as passed to create_bill, in cents (negative ones are in
   SeqPayments) *)
Payments == {0, 3500}

(* Bills of the one-call-at-a-time specification *)
MaxSeqBills == 3

(* The session, the names, the item lists and the payments of the
   one-call-at-a-time specification *)
SeqProc == "s1"

SeqNames == { <<"A", "l", "i", " ">>, <<"a", "l", "i">> }

SeqItemLists ==
    { << [name |-> "1.5LTR PACK", qty |-> -10, price |-> 1500],
         [name |-> "500ML PACK", qty |-> 10, price |-> 1500],
         [name |-> "6LTR BOTTLE", qty |-> 10, price |-> 0] >>,
      << [name |-> "500ML PACK", qty |-> 10, price |-> 1000],
         [name |-> "6LTR BOTTLE", qty |-> 4, price |-> 5001] >>,
      << [name |-> "500ML PACK", qty |-> 0, price |-> 1500],
         [name |-> "1.5LTR PACK", qty |-> 10, price |-> -500] >> }

SeqPayments == {-500, 0, 1000, 3000, 3500}

(* Pure helpers *)

Min(a, b) == IF a <= b THEN a ELSE b

Max(a, b) == IF a >= b THEN a ELSE b

Abs(a) == IF a < 0 THEN -a ELSE a

(* str.strip(): drop leading and trailing whitespace *)
RECURSIVE LStrip(_)
LStrip(s) == IF s # <<>> /\ Head(s) = " " THEN LStrip(Tail(s)) ELSE s

RECURSIVE RStrip(_)
RStrip(s) ==
    IF s # <<>> /\ s[Len(s)] = " " THEN RStrip(SubSeq(s, 1, Len(s) - 1)) ELSE s

Strip(s) == RStrip(LStrip(s))

(* str.lower() *)
LowerCase(s) == [i \in 1..Len(s) |-> IF s[i] = "A" THEN "a" ELSE s[i]]

(* round(x, 2) of a non-negative amount in mills: the nearest cent, a tie
   going to the even cent *)
Round2(m) ==
    LET q == m \div 10
        r == m % 10
    IN  IF r < 5 THEN q
        ELSE IF r > 5 THEN q + 1
        ELSE IF q % 2 = 0 THEN q ELSE q + 1

(* round(x, 2) of an amount that is already a sum of cents *)
Round2Cents(c) == Round2(10 * c)

(* Mutant: the item loop skips nothing *)
SurvivesAll(it) == TRUE

(* the filter of create_bill's item loop *)
Survives(it) == ~(it.qty <= 0 \/ it.price < 0)

(* one line of create_bill's item loop *)
Line(it) == [item |-> it.name, qty |-> it.qty, price |-> it.price,
             total |-> Round2(it.qty * it.price)]

(* the lines list built by create_bill's item loop *)
RECURSIVE Lines(_)
Lines(items) ==
    IF items = <<>> THEN <<>>
    ELSE IF Survives(Head(items)) THEN <<Line(Head(items))>> \o Lines(Tail(items))
    ELSE Lines(Tail(items))

RECURSIVE SumTotals(_)
SumTotals(lines) ==
    IF lines = <<>> THEN 0 ELSE Head(lines).total + SumTotals(Tail(lines))

Subtotal(lines) == Round2Cents(SumTotals(lines))


(* Mutant: the prior advance is never applied to the subtotal *)
AdvanceAppliedNone(adv_before, subtotal) == 0

(* Mutant: the whole prior advance is applied, not capped at the subtotal *)
AdvanceAppliedUncapped(adv_before, subtotal) == adv_before

(* create_bill: "Use advance first" *)
AdvanceApplied(adv_before, subtotal) == Min(adv_before, subtotal)

(* Mutant: the amount is taken as given *)
PaymentUnclamped(amount_paid) == amount_paid

(* create_bill: payment = max(0.0, float(amount_paid)) *)
Payment(amount_paid) == Max(0, amount_paid)

(* Mutant: an overpayment replaces the unused advance instead of adding to it *)
NewAdvanceDropsRest(adv_before, advance_applied, after_payment) ==
    IF after_payment > 0
    THEN adv_before - advance_applied
    ELSE Abs(after_payment)

(* Mutant: a bill that leaves the customer owing keeps the applied advance *)
NewAdvanceKeepsApplied(adv_before, advance_applied, after_payment) ==
    IF after_payment > 0
    THEN adv_before
    ELSE (adv_before - advance_applied) + Abs(after_payment)

(* create_bill: the branch on after_payment, the new advance *)
NewAdvance(adv_before, advance_applied, after_payment) ==
    IF after_payment > 0
    THEN adv_before - advance_applied
    ELSE (adv_before - advance_applied) + Abs(after_payment)

(* Mutant: an unpaid rest overwrites the prior remaining instead of adding to it *)
NewRemainingForgetsPrior(rem_before, after_payment) ==
    IF after_payment > 0 THEN after_payment ELSE rem_before

(* Mutant: an overpayment pays down the prior remaining *)
NewRemainingNetsOverpay(rem_before, after_payment) ==
    IF after_payment > 0 THEN rem_before + after_payment
    ELSE Max(0, rem_before - Abs(after_payment))

(* create_bill: the branch on after_payment, the new remaining *)
NewRemaining(rem_before, after_payment) ==
    IF after_payment > 0 THEN rem_before + after_payment ELSE rem_before

(* create_bill: the reconciliation between get_ledger and the INSERT *)
Reconcile(adv_before, rem_before, subtotal, amount_paid) ==
    LET advance_applied == AdvanceApplied(adv_before, subtotal)
        after_advance   == subtotal - advance_applied
        payment         == Payment(amount_paid)
        after_payment   == after_advance - payment
    IN  [advance_applied |-> advance_applied,
         payment         |-> payment,
         new_advance     |-> Round2Cents(NewAdvance(adv_before, advance_applied, after_payment)),
         new_remaining   |-> Round2Cents(NewRemaining(rem_before, after_payment))]

(* The local variables of a session that is not inside create_bill *)
NoLocals ==
    [name |-> <<>>, items |-> <<>>, amount_paid |-> 0, customer_id |-> 0,
     adv_before |-> 0, rem_before |-> 0, lines |-> <<>>, subtotal |-> 0,
     advance_applied |-> 0, payment |-> 0, new_advance |-> 0,
     new_remaining |-> 0, bill_id |-> 0, exc |-> "none", pdf |-> {}]

(* init_db on a fresh database file: five empty tables *)
Init ==
    /\ users = {}
    /\ customers = <<>>
    /\ ledger = <<>>
    /\ bills = <<>>
    /\ bill_items = {}
    /\ nextCustomerId = 1
    /\ nextBillId = 1
    /\ nextItemId = 1
    /\ pc = [p \in Procs |-> "idle"]
    /\ locals = [p \in Procs |-> NoLocals]
    /\ wipes = 0
    /\ serials = {}

(* create_user: INSERT INTO users the lower-cased, stripped email; the
   IntegrityError of a known email is caught and nothing is written *)
CreateUser ==
    /\ \E email \in Emails :
          LET key == Strip(LowerCase(email))
          IN  users' = IF key \in users THEN users ELSE users \cup {key}
    /\ UNCHANGED <<db, pc, locals, wipes, serials>>

(* main: the pages are shown to a logged-in session only, and verify_user
   logs in an email of the users table *)
LoggedIn == users # {}

(* calls that may still take a fresh id *)
Pending(labels) == Cardinality({q \in Procs : pc[q] \in labels})

(* billing_form calls create_bill(customer_name, items, amount_paid).  The
   arguments items and amount_paid are immutable and first read after
   get_ledger has returned, so the model draws them where the code first reads
   them (InsertBillWith) *)
StartWith(p, names, maxBills) ==
    /\ pc[p] = "idle"
    /\ LoggedIn
    /\ (nextBillId - 1) + Pending({"select", "insert_customer", "get_ledger", "insert_bill"}) < maxBills
    /\ \E name \in names :
          locals' = [locals EXCEPT ![p] = [NoLocals EXCEPT !.name = name]]
    /\ pc' = [pc EXCEPT ![p] = "select"]
    /\ UNCHANGED <<db, wipes, users, serials>>

Start(p) == StartWith(p, Names, MaxBills)

(* SELECT id FROM customers WHERE name=? *)
SelectCustomer(name) == {id \in DOMAIN customers : customers[id] = name}

(* Mutant: the stripped name is looked up without the check for emptiness *)
GetOrCreateSelectUnchecked(p) ==
    /\ pc[p] = "select"
    /\ LET name == Strip(locals[p].name)
           rows == SelectCustomer(name)
       IN  IF rows # {}
           THEN /\ pc' = [pc EXCEPT ![p] = "get_ledger"]
                /\ locals' = [locals EXCEPT ![p].customer_id = CHOOSE id \in rows : TRUE]
           ELSE /\ pc' = [pc EXCEPT ![p] = "insert_customer"]
                /\ UNCHANGED locals
    /\ UNCHANGED <<db, wipes, users, serials>>

(* get_or_create_customer up to the SELECT: strip, validate, look up *)
GetOrCreateSelect(p) ==
    /\ pc[p] = "select"
    /\ LET name == Strip(locals[p].name)
           rows == SelectCustomer(name)
       IN  IF name = <<>>
           THEN /\ pc' = [pc EXCEPT ![p] = "raised"]
                /\ locals' = [locals EXCEPT ![p] = [NoLocals EXCEPT !.exc = "ValueError"]]
           ELSE IF rows # {}
           THEN /\ pc' = [pc EXCEPT ![p] = "get_ledger"]
                /\ locals' = [locals EXCEPT ![p].customer_id = CHOOSE id \in rows : TRUE]
           ELSE /\ pc' = [pc EXCEPT ![p] = "insert_customer"]
                /\ UNCHANGED locals
    /\ UNCHANGED <<db, wipes, users, serials>>

(* the UNIQUE constraint of customers.name *)
NameTaken(name) == \E id \in DOMAIN customers : customers[id] = name

(* Mutant: the new customer gets no ledger row *)
InsertCustomerNoLedger(p) ==
    /\ pc[p] = "insert_customer"
    /\ LET name == Strip(locals[p].name)
           cid  == nextCustomerId
       IN  IF NameTaken(name)
           THEN /\ pc' = [pc EXCEPT ![p] = "raised"]
                /\ locals' = [locals EXCEPT ![p] = [NoLocals EXCEPT !.exc = "IntegrityError"]]
                /\ UNCHANGED <<customers, nextCustomerId>>
           ELSE /\ customers' = customers @@ (cid :> name)
                /\ nextCustomerId' = cid + 1
                /\ pc' = [pc EXCEPT ![p] = "get_ledger"]
                /\ locals' = [locals EXCEPT ![p].customer_id = cid]
    /\ UNCHANGED <<ledger, bills, bill_items, nextBillId, nextItemId, wipes, users, serials>>

(* get_or_create_customer, the else branch: INSERT customers, INSERT OR IGNORE
   ledger, commit; an IntegrityError of the INSERT propagates to the caller *)
InsertCustomer(p) ==
    /\ pc[p] = "insert_customer"
    /\ LET name == Strip(locals[p].name)
           cid  == nextCustomerId
       IN  IF NameTaken(name)
           THEN /\ pc' = [pc EXCEPT ![p] = "raised"]
                /\ locals' = [locals EXCEPT ![p] = [NoLocals EXCEPT !.exc = "IntegrityError"]]
                /\ UNCHANGED <<customers, ledger, nextCustomerId>>
           ELSE /\ customers' = customers @@ (cid :> name)
                /\ ledger' = IF cid \in DOMAIN ledger THEN ledger
                             ELSE ledger @@ (cid :> [advance |-> 0, remaining |-> 0])
                /\ nextCustomerId' = cid + 1
                /\ pc' = [pc EXCEPT ![p] = "get_ledger"]
                /\ locals' = [locals EXCEPT ![p].customer_id = cid]
    /\ UNCHANGED <<bills, bill_items, nextBillId, nextItemId, wipes, users, serials>>

(* get_ledger: the row, or (0.0, 0.0) when there is none *)
get_ledger(customer_id) ==
    IF customer_id \in DOMAIN ledger
    THEN <<ledger[customer_id].advance, ledger[customer_id].remaining>>
    ELSE <<0, 0>>

(* create_bill: adv_before, rem_before = get_ledger(customer_id) *)
GetLedger(p) ==
    /\ pc[p] = "get_ledger"
    /\ LET prior == get_ledger(locals[p].customer_id)
       IN  locals' = [locals EXCEPT ![p].adv_before = prior[1],
                                    ![p].rem_before = prior[2]]
    /\ pc' = [pc EXCEPT ![p] = "insert_bill"]
    /\ UNCHANGED <<db, wipes, users, serials>>

(* create_bill from the item loop to the rounding of the new ledger values:
   the local variables once the reconciliation is computed *)
Computed(l, items, amount_paid) ==
    LET lines    == Lines(items)
        subtotal == Subtotal(lines)
        out      == Reconcile(l.adv_before, l.rem_before, subtotal, amount_paid)
    IN  [l EXCEPT !.items = items, !.amount_paid = amount_paid,
                  !.lines = lines, !.subtotal = subtotal,
                  !.advance_applied = out.advance_applied,
                  !.payment = out.payment,
                  !.new_advance = out.new_advance,
                  !.new_remaining = out.new_remaining]

(* the bills row create_bill inserts *)
BillRow(l) ==
    [customer_id |-> l.customer_id, subtotal |-> l.subtotal,
     advance_applied |-> l.advance_applied, amount_paid |-> l.payment,
     remaining_after |-> l.new_remaining, advance_after |-> l.new_advance]

(* the bill_items rows create_bill inserts for its lines *)
ItemRows(bill_id, lines, first_id) ==
    { [id |-> first_id + i - 1, bill_id |-> bill_id, item_name |-> lines[i].item,
       quantity |-> lines[i].qty, unit_price |-> lines[i].price,
       line_total |-> lines[i].total] : i \in 1..Len(lines) }

(* create_bill: the reconciliation (local), then INSERT bills, INSERT
   bill_items, commit (one transaction).  get_conn sets no PRAGMA
   foreign_keys, so SQLite does not enforce the FOREIGN KEY clauses: the
   INSERT does not look for the customers row *)
InsertBillWith(p, itemLists, payments) ==
    /\ pc[p] = "insert_bill"
    /\ \E items \in itemLists, amount_paid \in payments :
          LET l       == Computed(locals[p], items, amount_paid)
              bill_id == nextBillId
          IN  /\ bills' = bills @@ (bill_id :> BillRow(l))
              /\ bill_items' = bill_items \cup ItemRows(bill_id, l.lines, nextItemId)
              /\ nextBillId' = bill_id + 1
              /\ serials' = serials \cup {bill_id}
              /\ nextItemId' = nextItemId + Len(l.lines)
              /\ locals' = [locals EXCEPT ![p] = [l EXCEPT !.bill_id = bill_id]]
    /\ pc' = [pc EXCEPT ![p] = "update_ledger"]
    /\ UNCHANGED <<customers, ledger, nextCustomerId, wipes, users>>

InsertBill(p) == InsertBillWith(p, ItemLists, Payments)

(* Mutant: an UPDATE without its WHERE clause: every ledger row is set *)
update_ledger_all(customer_id, new_advance, new_remaining) ==
    [c \in DOMAIN ledger |->
        [advance |-> Round2Cents(new_advance), remaining |-> Round2Cents(new_remaining)]]

(* update_ledger: UPDATE ledger SET ... WHERE customer_id=?, commit *)
update_ledger(customer_id, new_advance, new_remaining) ==
    IF customer_id \in DOMAIN ledger
    THEN [ledger EXCEPT ![customer_id] =
              [advance |-> Round2Cents(new_advance), remaining |-> Round2Cents(new_remaining)]]
    ELSE ledger

(* build_invoice_pdf: what the invoice prints.  The date and time are held
   as the minutes by which the printed "%Y-%m-%d %H:%M" lies after the minute
   of the bill_date stored with the bill. *)
build_invoice_pdf(serial, customer_name, minutes_after, items, subtotal, advance_applied, amount_paid, advance_after, remaining_after) ==
    [serial |-> serial, customer_name |-> customer_name,
     minutes_after |-> minutes_after, items |-> items, subtotal |-> subtotal,
     advance_applied |-> advance_applied, amount_paid |-> amount_paid,
     advance_after |-> advance_after, remaining_after |-> remaining_after]

(* create_bill renders with a second datetime.now(), taken after the bill's
   commit and update_ledger: it falls in the minute of the stored bill_date
   (0) or in a later one (1) *)
RenderDelays == {0, 1}

(* the invoices create_bill may build from its locals, one for each minute
   its datetime.now() may fall in *)
InvoicesOf(l) ==
    { build_invoice_pdf(l.bill_id, l.name, minutes_after, l.lines, l.subtotal,
                        l.advance_applied, l.payment, l.new_advance,
                        l.new_remaining) : minutes_after \in RenderDelays }

(* what create_bill's caller keeps of the call: the serial and the invoice,
   held as the set of the invoices it may be (the details are fields of the
   bills row of that serial) *)
Result(l) ==
    [NoLocals EXCEPT !.customer_id = l.customer_id, !.bill_id = l.bill_id,
                     !.pdf = InvoicesOf(l)]

(* create_bill: the call of update_ledger after the bill's commit *)
UpdateLedger(p) ==
    /\ pc[p] = "update_ledger"
    /\ ledger' = update_ledger(locals[p].customer_id, locals[p].new_advance,
                               locals[p].new_remaining)
    /\ pc' = [pc EXCEPT ![p] = "returned"]
    /\ locals' = [locals EXCEPT ![p] = Result(locals[p])]
    /\ UNCHANGED <<customers, bills, bill_items, nextCustomerId, nextBillId,
                   nextItemId, wipes, users, serials>>

(* the bill_items rows of a bill as the list the SELECT returns, in rowid
   order *)
RECURSIVE ItemRecords(_)
ItemRecords(rows) ==
    IF rows = {} THEN <<>>
    ELSE LET r == CHOOSE x \in rows : \A y \in rows : x.id <= y.id
         IN  << [item |-> r.item_name, qty |-> r.quantity, price |-> r.unit_price,
                 total |-> r.line_total] >> \o ItemRecords(rows \ {r})

(* billing_form, "Re-download Invoice by Serial": the bills row joined with
   its customer, the bill_items rows, and the invoice built from them with
   the stored bill_date; a read of the database that writes nothing *)
Redownload(serial) ==
    IF serial \in DOMAIN bills /\ bills[serial].customer_id \in DOMAIN customers
    THEN LET b == bills[serial]
         IN  build_invoice_pdf(serial, customers[b.customer_id], 0,
                 ItemRecords({r \in bill_items : r.bill_id = serial}),
                 b.subtotal, b.advance_applied, b.amount_paid,
                 b.advance_after, b.remaining_after)
    ELSE "Bill not found"

(* create_bill returns; the session is ready for the next form *)
Return(p) ==
    /\ pc[p] = "returned"
    /\ pc' = [pc EXCEPT ![p] = "idle"]
    /\ locals' = [locals EXCEPT ![p] = NoLocals]
    /\ UNCHANGED <<db, wipes, users, serials>>

(* The call stops between two of its steps: the server process is killed, or
   sqlite3 raises (OperationalError) on the next connect or execute.  Whatever
   was committed stays committed. *)
Stop(p) ==
    /\ pc[p] \in {"select", "insert_customer", "get_ledger", "insert_bill", "update_ledger"}
    /\ pc' = [pc EXCEPT ![p] = "raised"]
    /\ locals' = [locals EXCEPT ![p] = [NoLocals EXCEPT !.exc = "Stopped"]]
    /\ UNCHANGED <<db, wipes, users, serials>>

(* the exception leaves create_bill; the session is ready for the next form *)
Unwind(p) ==
    /\ pc[p] = "raised"
    /\ pc' = [pc EXCEPT ![p] = "idle"]
    /\ locals' = [locals EXCEPT ![p] = NoLocals]
    /\ UNCHANGED <<db, wipes, users, serials>>

(* a wipe whose commit comes after the first three DELETEs only: the
   customers table is left as it was *)
WipeKeepsCustomers ==
    /\ wipes < MaxWipes
    /\ LoggedIn
    /\ ledger' = <<>>
    /\ bills' = <<>>
    /\ bill_items' = {}
    /\ wipes' = wipes + 1
    /\ UNCHANGED <<customers, nextCustomerId, nextBillId, nextItemId, pc, locals, users, serials>>

(* a wipe on a bills table declared without AUTOINCREMENT: the next rowid
   of an emptied table starts again at 1 *)
WipeResetsSerial ==
    /\ wipes < MaxWipes
    /\ LoggedIn
    /\ customers' = <<>>
    /\ ledger' = <<>>
    /\ bills' = <<>>
    /\ bill_items' = {}
    /\ nextBillId' = 1
    /\ wipes' = wipes + 1
    /\ UNCHANGED <<nextCustomerId, nextItemId, pc, locals, users, serials>>

(* page_admin: the four DELETEs and their commit *)
Wipe ==
    /\ wipes < MaxWipes
    /\ LoggedIn
    /\ customers' = <<>>
    /\ ledger' = <<>>
    /\ bills' = <<>>
    /\ bill_items' = {}
    /\ wipes' = wipes + 1
    /\ UNCHANGED <<nextCustomerId, nextBillId, nextItemId, pc, locals, users, serials>>

Next ==
    \/ CreateUser
    \/ \E p \in Procs : Start(p)
    \/ \E p \in Procs : GetOrCreateSelect(p)
    \/ \E p \in Procs : InsertCustomer(p)
    \/ \E p \in Procs : GetLedger(p)
    \/ \E p \in Procs : InsertBill(p)
    \/ \E p \in Procs : UpdateLedger(p)
    \/ \E p \in Procs : Return(p)
    \/ \E p \in Procs : Stop(p)
    \/ \E p \in Procs : Unwind(p)
    \/ Wipe

Spec == Init /\ [][Next]_vars

(* One call at a time, each run to completion: sequences of completed
   create_bill calls of one session, with no wipe and no failure *)
SeqStart == StartWith(SeqProc, SeqNames, MaxSeqBills)

SeqInsertBill == InsertBillWith(SeqProc, SeqItemLists, SeqPayments)

NextSeq ==
    \/ CreateUser
    \/ SeqStart
    \/ GetOrCreateSelect(SeqProc)
    \/ InsertCustomer(SeqProc)
    \/ GetLedger(SeqProc)
    \/ SeqInsertBill
    \/ UpdateLedger(SeqProc)
    \/ Return(SeqProc)

SpecSeq == Init /\ [][NextSeq]_vars

(* The ledger helper called on its own: update_ledger(customer_id,
   new_advance, new_remaining) with arguments of any sign, for a customer id
   that has a row or for the next, unused id, between the create_bill calls
   of the one-call-at-a-time specification *)
LedgerArgs == {-500, 0, 1500}

MaxLedgerBills == 2

LedgerStart == StartWith(SeqProc, SeqNames, MaxLedgerBills)

UpdateLedgerCall ==
    /\ pc[SeqProc] = "idle"
    /\ \E customer_id \in DOMAIN customers \cup {nextCustomerId},
          new_advance \in LedgerArgs, new_remaining \in LedgerArgs :
          ledger' = update_ledger(customer_id, new_advance, new_remaining)
    /\ UNCHANGED <<customers, bills, bill_items, nextCustomerId, nextBillId,
                   nextItemId, pc, locals, wipes, users, serials>>

NextLedger ==
    \/ CreateUser
    \/ LedgerStart
    \/ GetOrCreateSelect(SeqProc)
    \/ InsertCustomer(SeqProc)
    \/ GetLedger(SeqProc)
    \/ SeqInsertBill
    \/ UpdateLedger(SeqProc)
    \/ Return(SeqProc)
    \/ UpdateLedgerCall

SpecLedger == Init /\ [][NextLedger]_vars

(* ---------------------------------------------------------------------- *)
(* Vocabulary of the claims                                                *)

(* the sessions whose create_bill has computed and committed its bill and
   has not yet written the ledger *)
Reconciled == {p \in Procs : pc[p] = "update_ledger"}

(* the bills of customer c *)
BillsOf(c) == {b \in DOMAIN bills : bills[b].customer_id = c}

(* a bill that was paid more than it left due while the customer was in debt *)
OverpaidInDebt(b) ==
    /\ bills[b].amount_paid > bills[b].subtotal - bills[b].advance_applied
    /\ bills[b].remaining_after > 0

(* at most one of advance and remaining is nonzero *)
Exclusive(advance, remaining) == advance = 0 \/ remaining = 0

(* C1 (as stated): in every reachable state of the ledger, after any sequence
   of completed create_bill calls, each customer's ledger row has at most one
   of advance and remaining nonzero. *)
C1_AtMostOneNonzero ==
    \A c \in DOMAIN ledger : Exclusive(ledger[c].advance, ledger[c].remaining)

(* C1 (amended): each customer's ledger row has advance >= 0 and remaining
   >= 0, and at most one of them is nonzero unless some bill of that customer
   was paid more than it left due while the customer was in debt. *)
C1_ExclusiveUnlessOverpaidInDebt ==
    \A c \in DOMAIN ledger :
        /\ ledger[c].advance >= 0
        /\ ledger[c].remaining >= 0
        /\ (\A b \in BillsOf(c) : ~OverpaidInDebt(b))
              => Exclusive(ledger[c].advance, ledger[c].remaining)

(* C1 witness: a customer with two completed bills, none overpaid in debt,
   whose ledger holds a credit left over by them *)
C1_Witness ==
    \E c \in DOMAIN ledger :
        /\ \A p \in Procs : pc[p] = "idle"
        /\ Cardinality(BillsOf(c)) >= 2
        /\ \A b \in BillsOf(c) : ~OverpaidInDebt(b)
        /\ ledger[c].advance > 0

(* the latest bill of customer c *)
LatestBill(c) == CHOOSE b \in BillsOf(c) : \A b2 \in BillsOf(c) : b2 <= b

(* C2: create_bill persists the Bill, its Line Items and the Ledger update as
   one atomic unit: whenever no create_bill call for a customer is on its way
   from the bill's commit to update_ledger (so also after a call has failed or
   stopped), the customer's ledger holds the values of the customer's latest
   persisted bill; no Bill is persisted with a stale ledger. *)
C2_BillAndLedgerTogether ==
    \A c \in DOMAIN ledger :
        (BillsOf(c) # {} /\ ~(\E p \in Reconciled : locals[p].customer_id = c))
            => /\ ledger[c].advance = bills[LatestBill(c)].advance_after
               /\ ledger[c].remaining = bills[LatestBill(c)].remaining_after

(* C3: the read of the prior ledger, the reconciliation and the write of the
   new ledger are atomic per customer: when a create_bill call writes the
   ledger row, the row still holds the prior state the call read, so no other
   call's update is lost. *)
C3_NoLostUpdate ==
    [][\A p \in Procs :
          (/\ pc[p] = "update_ledger"
           /\ pc'[p] = "returned"
           /\ locals[p].customer_id \in DOMAIN ledger)
            => /\ ledger[locals[p].customer_id].advance = locals[p].adv_before
               /\ ledger[locals[p].customer_id].remaining = locals[p].rem_before]_vars

(* what a bill leaves due once the applied advance is taken off *)
Due(l) == l.subtotal - l.advance_applied

(* C4: create_bill applies the prior advance before the payment:
   advance_applied = min(prior advance, subtotal); the payment goes against
   subtotal - advance_applied only; payment left over is added to the unused
   advance and an unpaid rest is added to remaining.  The bills row carries
   the same values. *)
C4_AdvanceBeforePayment ==
    \A p \in Reconciled :
        LET l       == locals[p]
            applied == IF l.adv_before <= l.subtotal THEN l.adv_before ELSE l.subtotal
            due     == l.subtotal - applied
            over    == IF l.payment - due > 0 THEN l.payment - due ELSE 0
            unpaid  == IF due - l.payment > 0 THEN due - l.payment ELSE 0
        IN  /\ l.advance_applied = applied
            /\ l.new_advance = (l.adv_before - applied) + over
            /\ l.new_remaining = l.rem_before + unpaid
            /\ l.bill_id \in DOMAIN bills
            /\ bills[l.bill_id].advance_applied = applied
            /\ bills[l.bill_id].advance_after = (l.adv_before - applied) + over
            /\ bills[l.bill_id].remaining_after = l.rem_before + unpaid

(* C4 witness: a bill that used up a prior advance smaller than its subtotal
   and was paid more than the rest *)
C4_Witness ==
    \E p \in Reconciled :
        /\ locals[p].advance_applied > 0
        /\ locals[p].advance_applied < locals[p].subtotal
        /\ locals[p].payment > Due(locals[p])

(* C5: conservation of money in one reconciliation:
   advanceApplied + payment - subtotal =
   (newAdvance - (priorAdvance - advanceApplied)) - (newRemaining - priorRemaining). *)
C5_Conservation ==
    \A p \in Reconciled :
        LET l == locals[p]
        IN  l.advance_applied + l.payment - l.subtotal
              = (l.new_advance - (l.adv_before - l.advance_applied))
                  - (l.new_remaining - l.rem_before)

(* C5 witness: a customer already in debt gets a bill that is paid in part *)
C5_Witness ==
    \E p \in Reconciled :
        /\ locals[p].rem_before > 0
        /\ locals[p].payment > 0
        /\ locals[p].new_remaining > locals[p].rem_before

(* C6 (as stated): the resulting advance and remaining are both >= 0, and
   whenever the prior state has at most one of them nonzero and the subtotal
   is > 0, the resulting state has at most one of them nonzero. *)
C6_ResultExclusive ==
    \A p \in Reconciled :
        LET l == locals[p]
        IN  /\ l.new_advance >= 0
            /\ l.new_remaining >= 0
            /\ (Exclusive(l.adv_before, l.rem_before) /\ l.subtotal > 0)
                  => Exclusive(l.new_advance, l.new_remaining)

(* C6 (amended): the resulting advance and remaining are both >= 0, and
   whenever the prior state has at most one of them nonzero, the subtotal is
   > 0 and the bill is not overpaid by a customer in debt (prior remaining = 0
   or payment <= subtotal - advance applied), the resulting state has at most
   one of them nonzero. *)
C6_ResultExclusiveUnlessOverpaidInDebt ==
    \A p \in Reconciled :
        LET l == locals[p]
        IN  /\ l.new_advance >= 0
            /\ l.new_remaining >= 0
            /\ (/\ Exclusive(l.adv_before, l.rem_before)
                /\ l.subtotal > 0
                /\ (l.rem_before = 0 \/ l.payment <= Due(l)))
                  => Exclusive(l.new_advance, l.new_remaining)

(* C6 witness: a customer in credit gets a bill larger than the credit and
   does not pay the rest in full *)
C6_Witness ==
    \E p \in Reconciled :
        /\ locals[p].adv_before > 0
        /\ locals[p].rem_before = 0
        /\ locals[p].subtotal > locals[p].adv_before
        /\ locals[p].new_remaining > 0

(* Scenario B of the specification: prior (advance 20.00, remaining 0), a bill
   with subtotal 15.00 and payment 0 *)
ScenarioB(l) ==
    l.adv_before = 2000 /\ l.rem_before = 0 /\ l.subtotal = 1500 /\ l.payment = 0

(* C7 (as stated): Scenario B yields advanceApplied = 15.00, resulting
   advance = 20.00 and resulting remaining = 0. *)
C7_ScenarioB_Advance20 ==
    \A p \in Reconciled :
        ScenarioB(locals[p])
            => /\ locals[p].advance_applied = 1500
               /\ locals[p].new_advance = 2000
               /\ locals[p].new_remaining = 0

(* C7 (amended): Scenario B yields advanceApplied = 15.00, resulting advance
   = 5.00 and resulting remaining = 0. *)
C7_ScenarioB_Advance5 ==
    \A p \in Reconciled :
        ScenarioB(locals[p])
            => /\ locals[p].advance_applied = 1500
               /\ locals[p].new_advance = 500
               /\ locals[p].new_remaining = 0

(* C7 witness: Scenario B has been billed *)
C7_Witness ==
    \E p \in Reconciled :
        /\ ScenarioB(locals[p])
        /\ locals[p].bill_id \in DOMAIN bills
        /\ bills[locals[p].bill_id].advance_after = 500

(* C8: a bill never reduces existing debt: every step leaves each customer's
   remaining at least what it was, and the ledger write of a bill whose prior
   advance plus payment cover the subtotal leaves it exactly unchanged; so
   across any sequence of bills remaining never decreases. *)
C8_RemainingNeverDecreases ==
    [][\A c \in DOMAIN ledger :
          c \in DOMAIN ledger'
            => /\ ledger'[c].remaining >= ledger[c].remaining
               /\ \A p \in Procs :
                     (/\ pc[p] = "update_ledger"
                      /\ pc'[p] = "returned"
                      /\ locals[p].customer_id = c
                      /\ locals[p].adv_before + locals[p].payment >= locals[p].subtotal)
                       => ledger'[c].remaining = ledger[c].remaining]_vars

(* C8 witness: a customer in debt has paid a bill more than its subtotal and
   the ledger still holds the debt *)
C8_Witness ==
    \E p \in Procs :
        /\ pc[p] = "returned"
        /\ locals[p].bill_id \in DOMAIN bills
        /\ bills[locals[p].bill_id].amount_paid > bills[locals[p].bill_id].subtotal
        /\ bills[locals[p].bill_id].remaining_after > 0
        /\ ledger[locals[p].customer_id].remaining
              = bills[locals[p].bill_id].remaining_after

(* case folding of one character *)
Lower(ch) == IF ch = "A" THEN "a" ELSE ch

(* a name trimmed and case-folded *)
Normalize(s) == LET t == Strip(s) IN [i \in 1..Len(t) |-> Lower(t[i])]

(* C9: customer resolution is case- and whitespace-normalized: no reachable
   state contains two customers whose normalized names are equal, so names
   equal after trimming and case-folding resolve to one customer id. *)
C9_NormalizedNamesUnique ==
    \A c1, c2 \in DOMAIN customers :
        Normalize(customers[c1]) = Normalize(customers[c2]) => c1 = c2

(* C10: when two get_or_create_customer calls for the same new name
   interleave, the name collision is recovered internally: no call fails with
   the store's uniqueness error. *)
C10_CollisionRecovered ==
    \A p \in Procs : ~(pc[p] = "raised" /\ locals[p].exc = "IntegrityError")

(* some row of the four business tables is gone after the step *)
RowDeleted ==
    \/ \E c \in DOMAIN customers : c \notin DOMAIN customers'
    \/ \E c \in DOMAIN ledger : c \notin DOMAIN ledger'
    \/ \E b \in DOMAIN bills : b \notin DOMAIN bills'
    \/ \E r \in bill_items : r \notin bill_items'

(* the four business tables hold no row *)
BusinessEmpty ==
    /\ customers = <<>>
    /\ ledger = <<>>
    /\ bills = <<>>
    /\ bill_items = {}

(* C11: the admin bulk wipe is atomic: every step that wipes, and every step
   that deletes any row of customers, ledger, bills or bill_items, leaves all
   four tables empty and the users table as it was; no step leaves only some
   of the four tables emptied. *)
C11_WipeAtomic ==
    [][(wipes' # wipes \/ RowDeleted) => (BusinessEmpty' /\ users' = users)]_vars

(* a wipe has emptied a database that held customers, bills and a user *)
C11_Witness ==
    /\ wipes > 0
    /\ BusinessEmpty
    /\ nextBillId > 1
    /\ nextCustomerId > 1
    /\ users # {}

(* the bills rows the step has inserted *)
NewBills == {b \in DOMAIN bills' : b \notin DOMAIN bills}

(* C12: bill serials are strictly increasing in creation order and never
   reused: the serial of every bill a step creates is greater than every
   serial handed out before, the serials of bills a wipe has deleted
   included, and the stored bills carry handed-out serials only. *)
C12_SerialsIncrease ==
    [][/\ \A b \in NewBills : \A s \in serials : b > s
       /\ DOMAIN bills' \subseteq serials']_vars

(* a bill created after a wipe that deleted an earlier bill *)
C12_Witness ==
    /\ wipes > 0
    /\ \E b \in DOMAIN bills, s \in serials : s \notin DOMAIN bills /\ b > s

(* the bill_items rows of one bill *)
ItemsOf(b) == {r \in bill_items : r.bill_id = b}

RECURSIVE SumLineTotals(_)
SumLineTotals(rows) ==
    IF rows = {} THEN 0
    ELSE LET r == CHOOSE x \in rows : TRUE
         IN  r.line_total + SumLineTotals(rows \ {r})

(* the positions of the items passed in that have a quantity > 0 and a
   price >= 0 *)
Billable(items) == {i \in 1..Len(items) : items[i].qty > 0 /\ items[i].price >= 0}

(* C13: items with quantity <= 0 or price < 0 are silently excluded: no
   bill_items row has such a quantity or price, every bill's persisted
   subtotal is the sum of the line totals of its persisted rows, and a bill
   just created from a list that holds such items exists, with exactly one
   row per billable item of the list and none for the others. *)
C13_InvalidItemsExcluded ==
    /\ \A r \in bill_items : r.quantity > 0 /\ r.unit_price >= 0
    /\ \A b \in DOMAIN bills : bills[b].subtotal = SumLineTotals(ItemsOf(b))
    /\ \A p \in Reconciled :
          LET l == locals[p]
          IN  /\ l.bill_id \in DOMAIN bills
              /\ Cardinality(ItemsOf(l.bill_id)) = Cardinality(Billable(l.items))
              /\ \A i \in Billable(l.items) :
                    \E r \in ItemsOf(l.bill_id) :
                        /\ r.item_name = l.items[i].name
                        /\ r.quantity = l.items[i].qty
                        /\ r.unit_price = l.items[i].price

(* a bill created from a list with excluded and billable items, and a bill
   created from a list whose items are all excluded *)
C13_Witness ==
    /\ \E p \in Reconciled :
          /\ Billable(locals[p].items) # {}
          /\ Cardinality(Billable(locals[p].items)) < Len(locals[p].items)
          /\ Cardinality(ItemsOf(locals[p].bill_id)) > 1
    /\ \E b \in DOMAIN bills : ItemsOf(b) = {} /\ bills[b].subtotal = 0

(* C14: a negative payment is clamped to 0: the bill records amount_paid 0,
   its advance applied, resulting advance and resulting remaining are those
   of the same call with amount_paid = 0, and it adds no more than the unpaid
   subtotal to the debt. *)
C14_NegativePaymentClamped ==
    \A p \in Reconciled :
        LET l    == locals[p]
            zero == Computed(l, l.items, 0)
        IN  l.amount_paid < 0 =>
              /\ l.payment = 0
              /\ bills[l.bill_id].amount_paid = 0
              /\ bills[l.bill_id].subtotal = zero.subtotal
              /\ bills[l.bill_id].advance_applied = zero.advance_applied
              /\ bills[l.bill_id].advance_after = zero.new_advance
              /\ bills[l.bill_id].remaining_after = zero.new_remaining
              /\ l.new_remaining - l.rem_before <= l.subtotal - l.advance_applied
              /\ l.new_advance = l.adv_before - l.advance_applied

(* a bill with a negative payment that the prior advance covers in part: the
   rest of its subtotal goes to the debt *)
C14_Witness ==
    \E p \in Reconciled :
        /\ locals[p].amount_paid < 0
        /\ locals[p].adv_before > 0
        /\ locals[p].subtotal > locals[p].adv_before
        /\ locals[p].new_remaining = locals[p].rem_before + locals[p].subtotal
                                        - locals[p].adv_before

(* the session is inside create_bill with a name that is empty once stripped,
   and get_or_create_customer has not looked at it yet *)
BlankNamePending(p) == pc[p] = "select" /\ Strip(locals[p].name) = <<>>

(* C15: a customer name that is empty after trimming makes
   get_or_create_customer, and so create_bill, fail with the validation error
   (ValueError) and leaves every table unchanged: the next step of such a
   call ends it, with ValueError unless the call was stopped from outside,
   the step and the unwinding of the error write nothing, and no customer
   with an empty name is ever stored. *)
C15_BlankNameRejected ==
    [][/\ \A p \in Procs :
            /\ (BlankNamePending(p) /\ pc'[p] # "select") =>
                   /\ pc'[p] = "raised"
                   /\ locals'[p].exc \in {"ValueError", "Stopped"}
                   /\ db' = db /\ users' = users
            /\ (pc[p] = "raised" /\ locals[p].exc = "ValueError" /\ pc'[p] # "raised") =>
                   /\ pc'[p] = "idle"
                   /\ db' = db /\ users' = users
       /\ \A c \in DOMAIN customers' : customers'[c] # <<>>]_vars

(* a call with a blank name has failed on a database that holds customers
   and bills *)
C15_Witness ==
    \E p \in Procs :
        /\ pc[p] = "raised"
        /\ locals[p].exc = "ValueError"
        /\ customers # <<>>
        /\ bills # <<>>

(* C16: update_ledger rejects negative values, so that no negative advance
   or remaining is ever persisted in the ledger. *)
C16_NoNegativePersisted ==
    \A c \in DOMAIN ledger : ledger[c].advance >= 0 /\ ledger[c].remaining >= 0

(* C17: the invoice re-rendered by serial is identical to the invoice
   create_bill returned for that serial: same serial, customer name, bill
   timestamp, line items and totals. *)
C17_RedownloadIdentical ==
    \A p \in Procs :
        (pc[p] = "returned" /\ locals[p].bill_id \in DOMAIN bills)
            => \A pdf_bytes \in locals[p].pdf :
                  Redownload(locals[p].bill_id) = pdf_bytes

(* C18: create_bill only appends.  In every step that is not the wipe, the
   stored bills, bill_items and customers rows stay as they are; at most one
   bills row is added and every added bill_items row belongs to it; the step
   of a call that inserts the bill adds exactly one bills row, for the call's
   customer; and a ledger row changes only in the update_ledger step of a
   call for that very customer. *)
C18_CreateBillAppendsOnly ==
    [][wipes' = wipes =>
        /\ \A b \in DOMAIN bills : b \in DOMAIN bills' /\ bills'[b] = bills[b]
        /\ bill_items \subseteq bill_items'
        /\ \A c \in DOMAIN customers :
              c \in DOMAIN customers' /\ customers'[c] = customers[c]
        /\ Cardinality(NewBills) <= 1
        /\ \A r \in bill_items' \ bill_items : r.bill_id \in NewBills
        /\ \A p \in Procs :
              (pc[p] = "insert_bill" /\ pc'[p] = "update_ledger") =>
                 /\ Cardinality(NewBills) = 1
                 /\ \A b \in NewBills : bills'[b].customer_id = locals[p].customer_id
        /\ \A c \in DOMAIN ledger :
              /\ c \in DOMAIN ledger'
              /\ ledger'[c] # ledger[c] =>
                    \E p \in Procs : /\ pc[p] = "update_ledger"
                                     /\ pc'[p] = "returned"
                                     /\ locals[p].customer_id = c]_vars

(* a call has billed one customer and written that customer's ledger row
   while another customer has bills and a ledger row that is not (0, 0) *)
C18_Witness ==
    \E p \in Procs, c \in DOMAIN ledger :
        /\ pc[p] = "returned"
        /\ locals[p].bill_id \in DOMAIN bills
        /\ locals[p].customer_id \in DOMAIN ledger
        /\ c # locals[p].customer_id
        /\ ledger[c] # [advance |-> 0, remaining |-> 0]
        /\ ledger[locals[p].customer_id] # [advance |-> 0, remaining |-> 0]
        /\ ledger[c] # ledger[locals[p].customer_id]
        /\ \E b \in DOMAIN bills : bills[b].customer_id = c

(* what the customer still owes for the bill itself once the advance and the
   payment are taken off its subtotal *)
OwedForBill(l) == l.subtotal - l.advance_applied - l.payment

(* C19: whenever a bill leaves the customer owing for that bill
   (subtotal - advance applied - payment > 0), the prior advance has been
   fully consumed: the advance applied is the whole prior advance and the
   resulting advance, in the call and in the bills row, is exactly 0. *)
C19_OwingConsumesAdvance ==
    \A p \in Reconciled :
        LET l == locals[p]
        IN  OwedForBill(l) > 0 =>
              /\ l.advance_applied = l.adv_before
              /\ l.new_advance = 0
              /\ bills[l.bill_id].advance_after = 0
              /\ bills[l.bill_id].remaining_after = l.rem_before + OwedForBill(l)

(* a customer with a prior advance is left owing for a bill, part of it paid *)
C19_Witness ==
    \E p \in Reconciled :
        /\ locals[p].adv_before > 0
        /\ locals[p].payment > 0
        /\ OwedForBill(locals[p]) > 0
        /\ locals[p].new_advance = 0

(* every customer has a ledger row and every ledger row has its customer *)
OneToOne == DOMAIN customers = DOMAIN ledger

(* C20: customers and ledger rows stay one to one through every step of
   get_or_create_customer, create_bill and the wipe, and the ledger row of a
   customer a step creates is (0, 0). *)
C20_CustomerLedgerOneToOne ==
    [][/\ OneToOne'
       /\ \A c \in DOMAIN customers' :
             c \notin DOMAIN customers =>
                 ledger'[c] = [advance |-> 0, remaining |-> 0]]_vars

(* after a wipe a customer has been created again and billed: the customer
   has a ledger row that is not (0, 0) *)
C20_Witness ==
    /\ wipes > 0
    /\ customers # <<>>
    /\ OneToOne
    /\ \E c \in DOMAIN ledger : ledger[c] # [advance |-> 0, remaining |-> 0]

(* C21: referential integrity holds when the wipe interleaves with bill
   creation: in every reachable state every bills row references a stored
   customer and every bill_items row references a stored bill. *)
C21_ReferentialIntegrity ==
    /\ \A b \in DOMAIN bills : bills[b].customer_id \in DOMAIN customers
    /\ \A r \in bill_items : r.bill_id \in DOMAIN bills

====
